---- MODULE Spec2Model ----
(***************************************************************************)
(* A model of package kubeutil of my-operator:                             *)
(*   - ServiceAccountToken (pkg/kubeutil/token.go), the credential poller: *)
(*     one invocation, its ticker, its context and the CmdRunner it calls; *)
(*   - DefaultRunner.Run and the e2e helper utils.Run, the process runner: *)
(*     one invocation, the child process and the context watcher of        *)
(*     os/exec;                                                            *)
(*   - ApplyClusterRoleBinding: successive invocations against the         *)
(*     bindings of a control plane;                                        *)
(*   - two DefaultRunner.Run invocations in parallel over the backing      *)
(*     arrays of the callers' environment lists.                           *)
(* Errors are modelled as chains: a sequence of message parts, the         *)
(* outermost first, so that fmt.Errorf("...: %w", err) is a prefix put in  *)
(* front of err's chain and the nil error is the empty chain.              *)
(***************************************************************************)
EXTENDS Integers, Sequences, FiniteSets, TLC

\* Bounds of the model.
MaxTime == 5
MaxApplies == 2
MaxSpare == 1
MaxChildOut == 1

\* token.go:41, the ticker period (in seconds).
Period == 2

VARIABLES
    pc,          \* position of ServiceAccountToken: entry, inflight, select, done
    ns, sa,      \* the arguments ns and sa
    ctxErr,      \* ctx.Err(): the nil chain until the context is done
    lastErr,     \* the local lastErr
    calls,       \* number of r.Run invocations made so far
    tickPending, \* ticker.C (capacity 1) holds a tick
    ticksRecv,   \* number of receives from ticker.C
    ticksSent,   \* history: number of times the ticker fired
    lastEndAt,   \* history: the time at which the latest tryOnce returned
    tcmd,        \* the cmd of the latest tryOnce, and how much r.Run read of it
    passed,      \* history: the cmds passed to r.Run so far
    now,         \* time since the ticker was created
    result,      \* the returned (token, error) once pc = "done"
    lastOut,     \* history: what r.Run returned to the latest completed tryOnce
    nFailed,     \* history: number of completed tryOnce calls that returned an error
    nSucceeded,  \* history: number of completed tryOnce calls that returned a token
    cancelPc,    \* history: the position at which the context became done
    cancelCalls  \* history: the value of calls when the context became done

pvars == <<pc, ns, sa, ctxErr, lastErr, calls, tickPending, ticksRecv,
           ticksSent, lastEndAt, tcmd, passed, now, result, lastOut, nFailed, nSucceeded, cancelPc, cancelCalls>>

VARIABLES
    rpc,         \* position of Run: idle, call, started, returned
    impl,        \* which Run: "DefaultRunner" or "utils"
    req,         \* the *exec.Cmd the caller passed
    rctx,        \* ctx.Err() of the context passed to Run
    xcmd,        \* the command Run executes (c2 of DefaultRunner.Run)
    proc,        \* the child: none, running, exited, killed
    exitCode,    \* the exit status of a child that exited on its own
    reaped,      \* Process.Wait has returned
    watched,     \* the context watcher of os/exec has acted
    watchErr,    \* the error the context watcher reports to Wait
    stdoutBuf,   \* the local bytes.Buffer stdout
    stderrBuf,   \* the local bytes.Buffer stderr
    wrote,       \* history: every write of the child, <<fd, char>>, in order
    rres,        \* the returned (string, error) once rpc = "returned"
    doneAt       \* history: the state of the child when the context became done

rvars == <<rpc, impl, req, rctx, xcmd, proc, exitCode, reaped, watched, watchErr,
           stdoutBuf, stderrBuf, wrote, rres, doneAt>>

VARIABLES
    apc,         \* position of ApplyClusterRoleBinding: idle, running, ran, done
    aargs,       \* the arguments name, clusterRole, ns and sa
    applyNo,     \* number of invocations made so far
    acmd,        \* the cmd passed to r.Run
    acalls,      \* number of r.Run invocations made by this invocation
    arun,        \* what r.Run returned
    aerr,        \* the returned error once apc = "done"
    cluster,     \* the ClusterRoleBindings the control plane holds
    prior        \* history: the previous invocation and the cluster it left

avars == <<apc, aargs, applyNo, acmd, acalls, arun, aerr, cluster, prior>>

VARIABLES
    cpc,         \* position of each concurrent Run: call, built, running, returned
    cslice,      \* cmd.Env of each call: a slice (array, length) of the heap
    heap,        \* the backing arrays of the environment lists
    writes,      \* history: <<array, index, call>> for every write to the heap
    cenv,        \* c2.Env of each call
    childEnv,    \* the environment the child of each call was started with
    cout,        \* the local buffer stdout of each call
    cres         \* what each call returned

cvars == <<cpc, cslice, heap, writes, cenv, childEnv, cout, cres>>

vars == <<pvars, rvars, avars, cvars>>

----------------------------------------------------------------------------
\* Errors

NilErr == <<>>

Wrap(msg, err) == msg \o err

CtxCanceled == <<"context canceled">>
CtxDeadlineExceeded == <<"context deadline exceeded">>
CtxErrs == {CtxCanceled, CtxDeadlineExceeded}

----------------------------------------------------------------------------
\* JSON documents and encoding/json's Unmarshal into tokenRequest

JNull == [t |-> "null", s |-> "", m |-> <<>>]
JStr(x) == [t |-> "str", s |-> x, m |-> <<>>]
JNum == [t |-> "num", s |-> "", m |-> <<>>]
JObj(members) == [t |-> "obj", s |-> "", m |-> members]
Member(k, v) == [k |-> k, v |-> v]

\* A response body: its text, whether the text is well-formed JSON, its value.
Doc(text, v) == [text |-> text, wf |-> TRUE, v |-> v]
BadDoc(text) == [text |-> text, wf |-> FALSE, v |-> JNull]

TokDoc(text, key1, key2, tokv) ==
    Doc(text, JObj(<<Member(key1, JObj(<<Member(key2, tokv)>>))>>))

BodyAbc == TokDoc("{\"status\":{\"token\":\"abc123\"}}", "status", "token", JStr("abc123"))
BodyXyz == TokDoc("{\"status\":{\"token\":\"xyz789\"}}", "status", "token", JStr("xyz789"))
BodyEmptyTok == TokDoc("{\"status\":{\"token\":\"\"}}", "status", "token", JStr(""))
BodyNullTok == TokDoc("{\"status\":{\"token\":null}}", "status", "token", JNull)
BodyNumTok == TokDoc("{\"status\":{\"token\":123}}", "status", "token", JNum)
BodyFolded == TokDoc("{\"Status\":{\"TOKEN\":\"abc123\"}}", "Status", "TOKEN", JStr("abc123"))
BodyOther == TokDoc("{\"status\":{\"other\":\"abc123\"}}", "status", "other", JStr("abc123"))
BodyStatusStr == Doc("{\"status\":\"abc123\"}", JObj(<<Member("status", JStr("abc123"))>>))
BodyEmptyObj == Doc("{}", JObj(<<>>))
BodyNull == Doc("null", JNull)
BodyStr == Doc("\"abc123\"", JStr("abc123"))
BodyNone == BadDoc("")
BodyTrunc == BadDoc("{\"status\":{\"token\":\"abc")

Bodies == {BodyAbc, BodyXyz, BodyEmptyTok, BodyNullTok, BodyNumTok, BodyFolded,
           BodyOther, BodyStatusStr, BodyEmptyObj, BodyNull, BodyStr, BodyNone,
           BodyTrunc}

\* Field names match case-insensitively.
Fold(k) ==
    CASE k \in {"status", "Status", "STATUS"} -> "status"
      [] k \in {"token", "Token", "TOKEN"} -> "token"
      [] OTHER -> k

SyntaxError == <<"invalid character or unexpected end of JSON input">>
UnmarshalTypeError == <<"json: cannot unmarshal value into Go struct field">>

\* The first error is kept; decoding goes on.
KeepFirst(e1, e2) == IF e1 # NilErr THEN e1 ELSE e2

\* Decoding a value into a Go string field: null leaves it, a string sets it.
DecodeString(cur, v) ==
    CASE v.t = "str" -> [val |-> v.s, err |-> NilErr]
      [] v.t = "null" -> [val |-> cur, err |-> NilErr]
      [] OTHER -> [val |-> cur, err |-> UnmarshalTypeError]

\* Decoding the members i.. of the status object into Status.Token.
RECURSIVE DecodeStatusMembers(_, _, _)
DecodeStatusMembers(ms, i, acc) ==
    IF i > Len(ms) THEN acc
    ELSE IF Fold(ms[i].k) = "token"
         THEN LET d == DecodeString(acc.val, ms[i].v)
              IN  DecodeStatusMembers(ms, i + 1,
                      [val |-> d.val, err |-> KeepFirst(acc.err, d.err)])
         ELSE DecodeStatusMembers(ms, i + 1, acc)

\* Decoding a value into the Status struct.
DecodeStatus(cur, v) ==
    CASE v.t = "obj" -> DecodeStatusMembers(v.m, 1, [val |-> cur, err |-> NilErr])
      [] v.t = "null" -> [val |-> cur, err |-> NilErr]
      [] OTHER -> [val |-> cur, err |-> UnmarshalTypeError]

\* Decoding the members i.. of the top-level object into tokenRequest.
RECURSIVE DecodeTopMembers(_, _, _)
DecodeTopMembers(ms, i, acc) ==
    IF i > Len(ms) THEN acc
    ELSE IF Fold(ms[i].k) = "status"
         THEN LET d == DecodeStatus(acc.val, ms[i].v)
              IN  DecodeTopMembers(ms, i + 1,
                      [val |-> d.val, err |-> KeepFirst(acc.err, d.err)])
         ELSE DecodeTopMembers(ms, i + 1, acc)

\* json.Unmarshal([]byte(stdout), &tr): tr.Status.Token and the error.
Unmarshal(doc) ==
    IF ~doc.wf THEN [val |-> "", err |-> SyntaxError]
    ELSE CASE doc.v.t = "obj" ->
                  DecodeTopMembers(doc.v.m, 1, [val |-> "", err |-> NilErr])
           [] doc.v.t = "null" -> [val |-> "", err |-> NilErr]
           [] OTHER -> [val |-> "", err |-> UnmarshalTypeError]

----------------------------------------------------------------------------
\* The CmdRunner seen by the poller: what one r.Run call may return.

RunnerErrs == {<<"kubectl failed", "exit status 1">>, <<"kubectl failed", "signal: killed">>}

RunnerOutcomes ==
    {[stdout |-> b, err |-> NilErr] : b \in Bodies}
        \cup {[stdout |-> b, err |-> e] : b \in {BodyNone, BodyAbc}, e \in RunnerErrs}

\* tryOnce that parses the output whatever error r.Run returned.
TryOnceIgnoreRunErr(n, s, out) ==
    LET tr == Unmarshal(out.stdout)
    IN  IF tr.err # NilErr
        THEN [tok |-> "",
              err |-> <<"token response json parse failed">> \o tr.err
                          \o <<"body", out.stdout.text>>]
        ELSE IF tr.val = ""
             THEN [tok |-> "", err |-> <<"token is empty">>]
             ELSE [tok |-> tr.val, err |-> NilErr]

\* tryOnce without the empty-token check of lines 60-62.
TryOnceNoEmptyCheck(n, s, out) ==
    IF out.err # NilErr
    THEN [tok |-> "", err |-> Wrap(<<"token request failed", n, s>>, out.err)]
    ELSE LET tr == Unmarshal(out.stdout)
         IN  IF tr.err # NilErr
             THEN [tok |-> "",
                   err |-> <<"token response json parse failed">> \o tr.err
                               \o <<"body", out.stdout.text>>]
             ELSE [tok |-> tr.val, err |-> NilErr]

\* tryOnce, from the return of r.Run on: the (token, error) it returns.
TryOnce(n, s, out) ==
    IF out.err # NilErr
    THEN [tok |-> "", err |-> Wrap(<<"token request failed", n, s>>, out.err)]
    ELSE LET tr == Unmarshal(out.stdout)
         IN  IF tr.err # NilErr
             THEN [tok |-> "",
                   err |-> <<"token response json parse failed">> \o tr.err
                               \o <<"body", out.stdout.text>>]
             ELSE IF tr.val = ""
                  THEN [tok |-> "", err |-> <<"token is empty">>]
                  ELSE [tok |-> tr.val, err |-> NilErr]

----------------------------------------------------------------------------
\* The host, and os/exec as far as Run uses it

MaxWrites == 2

\* The characters a child may write; strings are sequences of characters.
Chars == {"a", "b", "\n"}

HostEnv == <<"PATH=/usr/local/bin", "HOME=/root">>
HostFiles == {"/usr/local/bin/kubectl"}
ProjectDir == "/src/my-operator"
Marker == "GO111MODULE=on"

\* A name without a path separator is looked up in $PATH.
IsBare(name) == name \in {"kubectl", "nosuch"}

\* strconv.Quote of a bare name, as exec.Error prints it.
QuotedName(name) ==
    CASE name = "kubectl" -> "\"kubectl\""
      [] name = "nosuch" -> "\"nosuch\""

\* The *exec.Error of a failed lookup; its text is
\* exec: "name": executable file not found in $PATH.
NotFound(name) ==
    <<"exec", QuotedName(name), "executable file not found in $PATH">>

\* Op and Path of the *fs.PathError of a failed fork/exec, which Error()
\* prints with a space between them.
ForkExec(path) ==
    CASE path = "/nonexistent/kubectl" -> "fork/exec /nonexistent/kubectl"
      [] path = "/usr/local/bin/kubectl" -> "fork/exec /usr/local/bin/kubectl"

\* exec.LookPath: the resolved path and the error.
LookPath(name) ==
    IF name = "kubectl"
    THEN [path |-> "/usr/local/bin/kubectl", err |-> NilErr]
    ELSE [path |-> "", err |-> NotFound(name)]

NoStdin == [present |-> FALSE, data |-> <<>>]
Reader(data) == [present |-> TRUE, data |-> data]

\* exec.Command / exec.CommandContext: Path is name, resolved when name is
\* bare and found; Args is name followed by the arguments.
MakeCmd(name, args, bound) ==
    LET lp == LookPath(name)
    IN  [Path |-> IF IsBare(name) /\ lp.err = NilErr THEN lp.path ELSE name,
         Args |-> <<name>> \o args,
         Err |-> IF IsBare(name) THEN lp.err ELSE NilErr,
         Dir |-> "",
         Stdin |-> NoStdin,
         Env |-> <<>>,
         ctxBound |-> bound]

Command(name, args) == MakeCmd(name, args, FALSE)
CommandContext(name, args) == MakeCmd(name, args, TRUE)

----------------------------------------------------------------------------
\* ServiceAccountToken

Namespaces == {"my-operator-system", "default"}
Accounts == {"my-operator-controller-manager", "builder"}

\* Line 20, as the pieces a reader hands out.
TokenRequestBody == <<"{\"apiVersion\":\"authentication.k8s.io/v1\",\"kind\":\"TokenRequest\"}">>

\* Line 47: the Sprintf of the resource path of the identity.
TokenPath(n, s) ==
    CASE n = "my-operator-system" /\ s = "my-operator-controller-manager" ->
           "/api/v1/namespaces/my-operator-system/serviceaccounts/my-operator-controller-manager/token"
      [] n = "my-operator-system" /\ s = "builder" ->
           "/api/v1/namespaces/my-operator-system/serviceaccounts/builder/token"
      [] n = "default" /\ s = "my-operator-controller-manager" ->
           "/api/v1/namespaces/default/serviceaccounts/my-operator-controller-manager/token"
      [] n = "default" /\ s = "builder" ->
           "/api/v1/namespaces/default/serviceaccounts/builder/token"

\* Lines 45-49: the command of one attempt and its input stream.
TokenCmd(n, s) ==
    [Command("kubectl", <<"create", "--raw", TokenPath(n, s), "-f", "-">>) EXCEPT
        !.Stdin = Reader(TokenRequestBody)]

\* A cmd object: id numbers the objects in the order tryOnce allocates them,
\* read is the number of pieces taken from its input stream so far.
NoRequest == [id |-> 0, cmd |-> Command("", <<>>), read |-> 0]

\* tryOnce that keeps the cmd of the first attempt for the later ones.
NewRequestReused(prev, n, s) ==
    IF prev.id = 0
    THEN [id |-> 1, cmd |-> TokenCmd(n, s), read |-> 0]
    ELSE prev

\* Lines 45-49 of each tryOnce: a new cmd with a new reader at its start.
NewRequest(prev, n, s) ==
    [id |-> prev.id + 1, cmd |-> TokenCmd(n, s), read |-> 0]

NoResult == [tok |-> "", err |-> NilErr]
NoOutcome == [stdout |-> BodyNone, err |-> NilErr]

PollerInit ==
    /\ pc = "entry"
    /\ ns \in Namespaces
    /\ sa \in Accounts
    /\ ctxErr = NilErr
    /\ lastErr = NilErr
    /\ calls = 0
    /\ tickPending = FALSE
    /\ ticksRecv = 0
    /\ ticksSent = 0
    /\ lastEndAt = 0
    /\ tcmd = NoRequest
    /\ passed = {}
    /\ now = 0
    /\ result = NoResult
    /\ lastOut = NoOutcome
    /\ nFailed = 0
    /\ nSucceeded = 0
    /\ cancelPc = "none"
    /\ cancelCalls = 0

\* No invocation of ServiceAccountToken.
PollerIdle ==
    /\ pc = "idle"
    /\ ns = ""
    /\ sa = ""
    /\ ctxErr = NilErr
    /\ lastErr = NilErr
    /\ calls = 0
    /\ tickPending = FALSE
    /\ ticksRecv = 0
    /\ ticksSent = 0
    /\ lastEndAt = 0
    /\ tcmd = NoRequest
    /\ passed = {}
    /\ now = 0
    /\ result = NoResult
    /\ lastOut = NoOutcome
    /\ nFailed = 0
    /\ nSucceeded = 0
    /\ cancelPc = "none"
    /\ cancelCalls = 0

\* The context becomes done (cancel, or the deadline passes) at any moment.
CtxDone ==
    /\ pc \in {"entry", "inflight", "select"}
    /\ ctxErr = NilErr
    /\ \E e \in CtxErrs : ctxErr' = e
    /\ cancelPc' = pc
    /\ cancelCalls' = calls
    /\ UNCHANGED <<tcmd, passed, lastEndAt, pc, ns, sa, lastErr, calls, tickPending, ticksRecv, ticksSent, now,
                   result, lastOut, nFailed, nSucceeded, rvars, avars, cvars>>

\* Advance with a ticker whose period grows with the failures so far.
AdvanceBackoff ==
    /\ pc \in {"inflight", "select"}
    /\ now < MaxTime
    /\ now' = now + 1
    /\ LET fires == now' % (Period * (nFailed + 1)) = 0
       IN  /\ tickPending' = (tickPending \/ fires)
           /\ ticksSent' = ticksSent + (IF fires THEN 1 ELSE 0)
    /\ UNCHANGED <<tcmd, passed, lastEndAt, pc, ns, sa, ctxErr, lastErr, calls, ticksRecv, result,
                   lastOut, nFailed, nSucceeded, cancelPc, cancelCalls, rvars,
                   avars, cvars>>

\* Time passes while the ticker runs; every Period it sends on ticker.C, and
\* the tick is dropped when the channel already holds one.
Advance ==
    /\ pc \in {"inflight", "select"}
    /\ now < MaxTime
    /\ now' = now + 1
    /\ LET fires == now' % Period = 0
       IN  /\ tickPending' = (tickPending \/ fires)
           /\ ticksSent' = ticksSent + (IF fires THEN 1 ELSE 0)
    /\ UNCHANGED <<tcmd, passed, lastEndAt, pc, ns, sa, ctxErr, lastErr, calls, ticksRecv, result,
                   lastOut, nFailed, nSucceeded, cancelPc, cancelCalls, rvars,
                   avars, cvars>>

\* Entry with the pre-check of lines 36-38 left out.
EntryNoPreCheck ==
    /\ pc = "entry"
    /\ pc' = "inflight"
    /\ tcmd' = NewRequest(tcmd, ns, sa)
    /\ passed' = passed \cup {tcmd'.id}
    /\ calls' = calls + 1
    /\ UNCHANGED <<lastEndAt, ns, sa, ctxErr, lastErr, tickPending, ticksRecv, ticksSent, now, result,
                   lastOut, nFailed, nSucceeded, cancelPc, cancelCalls, rvars, avars, cvars>>

\* Entry with the first tryOnce left to the first tick.
EntryDeferred ==
    /\ pc = "entry"
    /\ IF ctxErr # NilErr
       THEN /\ pc' = "done"
            /\ result' = [tok |-> "", err |-> ctxErr]
       ELSE /\ pc' = "select"
            /\ result' = result
    /\ UNCHANGED <<tcmd, passed, lastEndAt, ns, sa, ctxErr, lastErr, calls, tickPending, ticksRecv, ticksSent, now,
                   lastOut, nFailed, nSucceeded, cancelPc, cancelCalls, rvars, avars, cvars>>

\* Lines 30-51: the pre-check, the ticker, and the first tryOnce up to r.Run.
Entry ==
    /\ pc = "entry"
    /\ IF ctxErr # NilErr
       THEN /\ pc' = "done"
            /\ result' = [tok |-> "", err |-> ctxErr]
            /\ calls' = calls
            /\ tcmd' = tcmd
            /\ passed' = passed
       ELSE /\ pc' = "inflight"
            /\ calls' = calls + 1
            /\ tcmd' = NewRequest(tcmd, ns, sa)
            /\ passed' = passed \cup {tcmd'.id}
            /\ result' = result
    /\ UNCHANGED <<lastEndAt, ns, sa, ctxErr, lastErr, tickPending, ticksRecv, ticksSent, now,
                   lastOut, nFailed, nSucceeded, cancelPc, cancelCalls, rvars, avars, cvars>>

\* lastErr that keeps the first failure.
RecordFirstFailure(prev, err) == IF prev = NilErr THEN err ELSE prev

\* lastErr after a failed attempt.
RecordFailure(prev, err) == err

\* RunnerReturn that gives up at the first failure instead of retrying.
RunnerReturnNoRetry ==
    /\ pc = "inflight"
    /\ \E out \in RunnerOutcomes :
          LET r == TryOnce(ns, sa, out)
          IN  /\ lastOut' = out
              /\ lastEndAt' = now
              /\ \E k \in {0, Len(tcmd.cmd.Stdin.data)} :
                    tcmd' = [tcmd EXCEPT !.read = k]
              /\ pc' = "done"
              /\ result' = r
              /\ lastErr' = r.err
              /\ nSucceeded' = nSucceeded + (IF r.err = NilErr THEN 1 ELSE 0)
              /\ nFailed' = nFailed + (IF r.err = NilErr THEN 0 ELSE 1)
    /\ UNCHANGED <<passed, ns, sa, ctxErr, calls, tickPending, ticksRecv, ticksSent, now, cancelPc,
                   cancelCalls, rvars, avars, cvars>>

\* RunnerReturn that tries again at once after a failure, without a tick.
RunnerReturnRetryNow ==
    /\ pc = "inflight"
    /\ \E out \in RunnerOutcomes :
          LET r == TryOnce(ns, sa, out)
          IN  /\ lastOut' = out
              /\ lastEndAt' = now
              /\ tcmd' = NewRequest(tcmd, ns, sa)
              /\ IF r.err = NilErr
                 THEN /\ pc' = "done"
                      /\ result' = [tok |-> r.tok, err |-> NilErr]
                      /\ lastErr' = lastErr
                      /\ nSucceeded' = nSucceeded + 1
                      /\ nFailed' = nFailed
                      /\ calls' = calls
                 ELSE /\ pc' = "inflight"
                      /\ lastErr' = RecordFailure(lastErr, r.err)
                      /\ result' = result
                      /\ nFailed' = nFailed + 1
                      /\ nSucceeded' = nSucceeded
                      /\ calls' = calls + 1
    /\ UNCHANGED <<passed, ns, sa, ctxErr, tickPending, ticksRecv, ticksSent, now,
                   cancelPc, cancelCalls, rvars, avars, cvars>>

\* r.Run returns inside tryOnce (lines 51-63), then lines 66-71 or 81-86.
RunnerReturn ==
    /\ pc = "inflight"
    /\ \E out \in RunnerOutcomes :
          LET r == TryOnce(ns, sa, out)
          IN  /\ lastOut' = out
              /\ lastEndAt' = now
              /\ \E k \in {0, Len(tcmd.cmd.Stdin.data)} :
                    tcmd' = [tcmd EXCEPT !.read = k]
              /\ IF r.err = NilErr
                 THEN /\ pc' = "done"
                      /\ result' = [tok |-> r.tok, err |-> NilErr]
                      /\ lastErr' = lastErr
                      /\ nSucceeded' = nSucceeded + 1
                      /\ nFailed' = nFailed
                 ELSE /\ pc' = "select"
                      /\ lastErr' = RecordFailure(lastErr, r.err)
                      /\ result' = result
                      /\ nFailed' = nFailed + 1
                      /\ nSucceeded' = nSucceeded
    /\ UNCHANGED <<passed, ns, sa, ctxErr, calls, tickPending, ticksRecv, ticksSent, now, cancelPc,
                   cancelCalls, rvars, avars, cvars>>

\* The error returned by the ctx.Done() case (lines 76-79).
CancelledErr(last, cerr) == IF last = NilErr THEN cerr ELSE last

\* SelectDone that leaves the select but not the loop.
SelectDoneNoReturn ==
    /\ pc = "select"
    /\ ctxErr # NilErr
    /\ lastErr' = CancelledErr(lastErr, ctxErr)
    /\ UNCHANGED <<tcmd, passed, lastEndAt, pc, ns, sa, ctxErr, calls, tickPending, ticksRecv, ticksSent, now, result,
                   lastOut, nFailed, nSucceeded, cancelPc, cancelCalls, rvars, avars, cvars>>

\* select, case <-ctx.Done() (lines 75-79).
SelectDone ==
    /\ pc = "select"
    /\ ctxErr # NilErr
    /\ pc' = "done"
    /\ result' = [tok |-> "", err |-> CancelledErr(lastErr, ctxErr)]
    /\ UNCHANGED <<tcmd, passed, lastEndAt, ns, sa, ctxErr, lastErr, calls, tickPending, ticksRecv, ticksSent, now,
                   lastOut, nFailed, nSucceeded, cancelPc, cancelCalls, rvars, avars, cvars>>

\* SelectTick that issues the request twice.
SelectTickTwice ==
    /\ pc = "select"
    /\ tickPending
    /\ tickPending' = FALSE
    /\ ticksRecv' = ticksRecv + 1
    /\ calls' = calls + 2
    /\ pc' = "inflight"
    /\ tcmd' = NewRequest(tcmd, ns, sa)
    /\ passed' = passed \cup {tcmd'.id}
    /\ UNCHANGED <<lastEndAt, ticksSent, ns, sa, ctxErr, lastErr, now, result, lastOut, nFailed,
                   nSucceeded, cancelPc, cancelCalls, rvars, avars, cvars>>

\* SelectTick that does not wait for the running tryOnce to return.
SelectTickOverlapping ==
    /\ pc \in {"select", "inflight"}
    /\ tickPending
    /\ tickPending' = FALSE
    /\ ticksRecv' = ticksRecv + 1
    /\ calls' = calls + 1
    /\ pc' = "inflight"
    /\ tcmd' = NewRequest(tcmd, ns, sa)
    /\ passed' = passed \cup {tcmd'.id}
    /\ UNCHANGED <<lastEndAt, ns, sa, ctxErr, lastErr, ticksSent, now, result, lastOut,
                   nFailed, nSucceeded, cancelPc, cancelCalls, rvars, avars, cvars>>

\* select, case <-ticker.C (lines 80-81): the next tryOnce up to r.Run.
SelectTick ==
    /\ pc = "select"
    /\ tickPending
    /\ tickPending' = FALSE
    /\ ticksRecv' = ticksRecv + 1
    /\ calls' = calls + 1
    /\ pc' = "inflight"
    /\ tcmd' = NewRequest(tcmd, ns, sa)
    /\ passed' = passed \cup {tcmd'.id}
    /\ UNCHANGED <<lastEndAt, ticksSent, ns, sa, ctxErr, lastErr, now, result, lastOut, nFailed,
                   nSucceeded, cancelPc, cancelCalls, rvars, avars, cvars>>

PollerNext ==
    \/ CtxDone
    \/ Advance
    \/ Entry
    \/ RunnerReturn
    \/ SelectDone
    \/ SelectTick

----------------------------------------------------------------------------
\* The requests, and Start and Wait of os/exec

\* The requests a caller passes to Run.
ReqApply == [Command("kubectl", <<"apply", "-f", "-">>) EXCEPT
                !.Stdin = Reader(<<"m">>)]
ReqGet == Command("kubectl", <<"get", "crds">>)
ReqBound == [CommandContext("kubectl", <<"get", "pods">>) EXCEPT
                !.Dir = "/work", !.Env = <<"KUBECONFIG=/k", "GO111MODULE=off">>]
ReqEmptyStdin == [Command("kubectl", <<"create", "-f", "-">>) EXCEPT
                !.Stdin = Reader(<<>>), !.Env = <<"A=1">>]
ReqNoSuch == Command("nosuch", <<>>)
ReqArgsOnly == [Command("", <<>>) EXCEPT !.Args = <<"kubectl", "version">>]
ReqEmpty == [Command("", <<>>) EXCEPT !.Args = <<>>]
ReqMissingFile == Command("/nonexistent/kubectl", <<"version">>)
ReqQuoted == [Command("kubectl", <<"get", "ns", "-l", "\"">>) EXCEPT
                !.Env = <<"GO111MODULE=on", "A=1">>]

Requests == {ReqApply, ReqGet, ReqBound, ReqEmptyStdin, ReqNoSuch, ReqArgsOnly,
             ReqEmpty, ReqMissingFile, ReqQuoted}

\* Cmd.Start up to the creation of the process: the error, or the nil chain
\* when the child is spawned.
StartError(c, cerr) ==
    IF c.Path = "" /\ c.Err = NilErr THEN <<"exec: no command">>
    ELSE IF c.Err # NilErr THEN c.Err
    ELSE IF c.ctxBound /\ cerr # NilErr THEN cerr
    ELSE IF c.Path \notin HostFiles
         THEN <<ForkExec(c.Path), "no such file or directory">>
    ELSE NilErr

\* Cmd.Wait: the error for a reaped child and the watcher's report.
WaitError(p, code, werr) ==
    IF p = "killed" THEN <<"signal: killed">>
    ELSE IF code # 0 THEN <<"exit status 1">>
    ELSE werr

IsSpace(ch) == ch \in {"\n", " "}

RECURSIVE TrimLeft(_)
TrimLeft(str) ==
    IF str # <<>> /\ IsSpace(Head(str)) THEN TrimLeft(Tail(str)) ELSE str

RECURSIVE TrimRight(_)
TrimRight(str) ==
    IF str # <<>> /\ IsSpace(str[Len(str)])
    THEN TrimRight(SubSeq(str, 1, Len(str) - 1))
    ELSE str

\* strings.TrimSpace
TrimSpace(str) == TrimRight(TrimLeft(str))

\* The variable name of an environment entry: the text before its "=".
EnvKey(kv) ==
    CASE kv \in {"GO111MODULE=on", "GO111MODULE=off"} -> "GO111MODULE"
      [] kv = "PATH=/usr/local/bin" -> "PATH"
      [] kv = "HOME=/root" -> "HOME"
      [] kv = "KUBECONFIG=/k" -> "KUBECONFIG"
      [] kv = "A=1" -> "A"

\* os/exec's dedupEnv, which Cmd.Start applies to Cmd.Env: the list is walked
\* from its end, an entry whose name has been seen is skipped, and the kept
\* entries are put back in their order.
RECURSIVE DedupFrom(_, _, _, _)
DedupFrom(env, n, saw, out) ==
    IF n = 0 THEN out
    ELSE IF EnvKey(env[n]) \in saw
         THEN DedupFrom(env, n - 1, saw, out)
         ELSE DedupFrom(env, n - 1, saw \cup {EnvKey(env[n])}, <<env[n]>> \o out)

DedupEnv(env) == DedupFrom(env, Len(env), {}, <<>>)

\* The environment the started child receives.
ChildEnv(c) == DedupEnv(c.Env)

\* strings.Join(parts, sep): text is a sequence of pieces, a piece being one
\* character or a word without characters that %q escapes.
RECURSIVE Join(_, _)
Join(parts, sep) ==
    IF parts = <<>> THEN <<>>
    ELSE IF Len(parts) = 1 THEN <<parts[1]>>
    ELSE <<parts[1], sep>> \o Join(Tail(parts), sep)

\* What %q writes for one piece.
Escape(piece) ==
    CASE piece = "\"" -> "\\\""
      [] piece = "\n" -> "\\n"
      [] piece = "\\" -> "\\\\"
      [] OTHER -> piece

\* fmt's %q of a string: double-quoted, every piece escaped.
Quote(str) == <<"\"">> \o [i \in 1..Len(str) |-> Escape(str[i])] \o <<"\"">>

\* err.Error() of an error chain.
ErrText(chain) == Join(chain, ": ")

----------------------------------------------------------------------------
\* DefaultRunner.Run and utils.Run

Impls == {"DefaultRunner", "utils"}

NoRunResult == [out |-> <<>>, isNil |-> TRUE, command |-> <<>>,
                combined |-> <<>>, cause |-> NilErr]

NoCmd == Command("", <<>>)

\* Rebuild with exec.Command in place of exec.CommandContext.
RebuildUnbound(cmd) ==
    LET path == IF cmd.Path = "" /\ Len(cmd.Args) > 0 THEN cmd.Args[1] ELSE cmd.Path
        args == IF Len(cmd.Args) > 1 THEN Tail(cmd.Args) ELSE <<>>
    IN  [Command(path, args) EXCEPT
            !.Dir = cmd.Dir,
            !.Stdin = cmd.Stdin,
            !.Env = IF Len(cmd.Env) = 0
                    THEN Append(HostEnv, Marker)
                    ELSE Append(cmd.Env, Marker)]

\* Rebuild with the marker put before the caller's entries.
RebuildMarkerFirst(cmd) ==
    LET path == IF cmd.Path = "" /\ Len(cmd.Args) > 0 THEN cmd.Args[1] ELSE cmd.Path
        args == IF Len(cmd.Args) > 1 THEN Tail(cmd.Args) ELSE <<>>
    IN  [CommandContext(path, args) EXCEPT
            !.Dir = cmd.Dir,
            !.Stdin = cmd.Stdin,
            !.Env = IF Len(cmd.Env) = 0
                    THEN <<Marker>> \o HostEnv
                    ELSE <<Marker>> \o cmd.Env]

\* Rebuild that passes every argument of the request, the first included.
RebuildAllArgs(cmd) ==
    LET path == IF cmd.Path = "" /\ Len(cmd.Args) > 0 THEN cmd.Args[1] ELSE cmd.Path
    IN  [CommandContext(path, cmd.Args) EXCEPT
            !.Dir = cmd.Dir,
            !.Stdin = cmd.Stdin,
            !.Env = IF Len(cmd.Env) = 0
                    THEN Append(HostEnv, Marker)
                    ELSE Append(cmd.Env, Marker)]

\* Rebuild that falls back to kubectl for a request without path and
\* arguments.
RebuildDefaultPath(cmd) ==
    LET path == IF cmd.Path # "" THEN cmd.Path
                ELSE IF Len(cmd.Args) > 0 THEN cmd.Args[1] ELSE "kubectl"
        args == IF Len(cmd.Args) > 1 THEN Tail(cmd.Args) ELSE <<>>
    IN  [CommandContext(path, args) EXCEPT
            !.Dir = cmd.Dir,
            !.Stdin = cmd.Stdin,
            !.Env = IF Len(cmd.Env) = 0
                    THEN Append(HostEnv, Marker)
                    ELSE Append(cmd.Env, Marker)]

\* DefaultRunner.Run lines 29-46: the context-bound command c2.
Rebuild(cmd) ==
    LET path == IF cmd.Path = "" /\ Len(cmd.Args) > 0 THEN cmd.Args[1] ELSE cmd.Path
        args == IF Len(cmd.Args) > 1 THEN Tail(cmd.Args) ELSE <<>>
    IN  [CommandContext(path, args) EXCEPT
            !.Dir = cmd.Dir,
            !.Stdin = cmd.Stdin,
            !.Env = IF Len(cmd.Env) = 0
                    THEN Append(HostEnv, Marker)
                    ELSE Append(cmd.Env, Marker)]

\* utils.Run lines 51-58: the caller's command, its Dir and Env overwritten.
Prepare(cmd) ==
    [cmd EXCEPT !.Dir = ProjectDir, !.Env = Append(HostEnv, Marker)]

\* Both streams captured into one buffer, as cmd.CombinedOutput does.
SinkCombined(fd) == "stdout"

\* The buffer that receives what the child writes to fd (1 or 2).
Sink(fd) == IF fd = 1 THEN "stdout" ELSE "stderr"

\* strings.Join(c2.Args, " ") of line 48 (line 59 of utils.Run).
CommandLine(c) == Join(c.Args, " ")

\* RunResult whose error shows standard output before standard error.
RunResultOutFirst(command, outStr, errStr, err) ==
    IF err # NilErr
    THEN [out |-> outStr, isNil |-> FALSE, command |-> command,
          combined |-> TrimSpace(outStr \o <<"\n">> \o errStr), cause |-> err]
    ELSE [out |-> outStr, isNil |-> TRUE, command |-> <<>>,
          combined |-> <<>>, cause |-> NilErr]

\* Lines 56-63 of DefaultRunner.Run, 75-84 of utils.Run.
RunResult(command, outStr, errStr, err) ==
    IF err # NilErr
    THEN [out |-> outStr, isNil |-> FALSE, command |-> command,
          combined |-> TrimSpace(errStr \o <<"\n">> \o outStr), cause |-> err]
    ELSE [out |-> outStr, isNil |-> TRUE, command |-> <<>>,
          combined |-> <<>>, cause |-> NilErr]

\* The message of the error of line 61, "%q failed: %s: %w".
ErrorText(res) ==
    Quote(res.command) \o <<" failed: ">> \o res.combined \o <<": ">>
        \o ErrText(res.cause)

RunnerIdle ==
    /\ rpc = "idle"
    /\ impl = "DefaultRunner"
    /\ req = NoCmd
    /\ rctx = NilErr
    /\ xcmd = NoCmd
    /\ proc = "none"
    /\ exitCode = 0
    /\ reaped = FALSE
    /\ watched = FALSE
    /\ watchErr = NilErr
    /\ stdoutBuf = <<>>
    /\ stderrBuf = <<>>
    /\ wrote = <<>>
    /\ rres = NoRunResult
    /\ doneAt = "none"

RunnerInit ==
    /\ rpc = "call"
    /\ impl \in Impls
    /\ req \in Requests
    /\ rctx = NilErr
    /\ xcmd = NoCmd
    /\ proc = "none"
    /\ exitCode = 0
    /\ reaped = FALSE
    /\ watched = FALSE
    /\ watchErr = NilErr
    /\ stdoutBuf = <<>>
    /\ stderrBuf = <<>>
    /\ wrote = <<>>
    /\ rres = NoRunResult
    /\ doneAt = "none"

\* The context passed to Run becomes done.
RunCtxDone ==
    /\ rpc \in {"call", "started"}
    /\ rctx = NilErr
    /\ \E e \in CtxErrs : rctx' = e
    /\ doneAt' = IF rpc = "call" THEN "before start"
                 ELSE IF reaped THEN "reaped" ELSE proc
    /\ UNCHANGED <<rpc, impl, req, xcmd, proc, exitCode, reaped, watched,
                   watchErr, stdoutBuf, stderrBuf, wrote, rres, pvars, avars, cvars>>

\* The command that Run executes.
Executed(which, cmd) == IF which = "DefaultRunner" THEN Rebuild(cmd) ELSE Prepare(cmd)

\* The caller's command after Run has set it up: DefaultRunner.Run only reads
\* it, utils.Run assigns its Dir and Env and runs it.
CallerCmdAfter(which, cmd) == IF which = "DefaultRunner" THEN cmd ELSE Prepare(cmd)

\* Run up to Cmd.Start: the command is built and started; a start failure
\* returns at once with empty buffers.
RunStart ==
    /\ rpc = "call"
    /\ LET c == Executed(impl, req)
           e == StartError(c, rctx)
       IN  /\ xcmd' = c
           /\ req' = CallerCmdAfter(impl, req)
           /\ IF e # NilErr
              THEN /\ rpc' = "returned"
                   /\ rres' = RunResult(CommandLine(c), stdoutBuf, stderrBuf, e)
                   /\ proc' = proc
              ELSE /\ rpc' = "started"
                   /\ proc' = "running"
                   /\ rres' = rres
    /\ UNCHANGED <<impl, rctx, exitCode, reaped, watched, watchErr,
                   stdoutBuf, stderrBuf, wrote, doneAt, pvars, avars, cvars>>

\* The child writes one character to its standard output or standard error.
ChildWrite ==
    /\ proc = "running"
    /\ Len(wrote) < MaxWrites
    /\ \E fd \in {1, 2}, ch \in Chars :
          /\ wrote' = Append(wrote, <<fd, ch>>)
          /\ stdoutBuf' = IF Sink(fd) = "stdout" THEN Append(stdoutBuf, ch) ELSE stdoutBuf
          /\ stderrBuf' = IF Sink(fd) = "stderr" THEN Append(stderrBuf, ch) ELSE stderrBuf
    /\ UNCHANGED <<rpc, impl, req, rctx, xcmd, proc, exitCode, reaped, watched,
                   watchErr, rres, doneAt, pvars, avars, cvars>>

\* The child exits on its own.
ChildExit ==
    /\ proc = "running"
    /\ \E code \in {0, 1} : exitCode' = code
    /\ proc' = "exited"
    /\ UNCHANGED <<rpc, impl, req, rctx, xcmd, reaped, watched, watchErr,
                   stdoutBuf, stderrBuf, wrote, rres, doneAt, pvars, avars, cvars>>

\* The context watcher of a context-bound command: once the context is done
\* it kills the child. Killing a running child, or one that exited and is not
\* reaped yet, succeeds and the context's error is reported; for a reaped
\* child the kill reports os.ErrProcessDone and no error is reported.
WatchCtx ==
    /\ rpc = "started"
    /\ xcmd.ctxBound
    /\ rctx # NilErr
    /\ ~watched
    /\ watched' = TRUE
    /\ proc' = IF proc = "running" THEN "killed" ELSE proc
    /\ watchErr' = IF reaped THEN NilErr ELSE rctx
    /\ UNCHANGED <<rpc, impl, req, rctx, xcmd, exitCode, reaped, stdoutBuf,
                   stderrBuf, wrote, rres, doneAt, pvars, avars, cvars>>

\* Process.Wait returns for a child that has ended.
Reap ==
    /\ rpc = "started"
    /\ proc \in {"exited", "killed"}
    /\ ~reaped
    /\ reaped' = TRUE
    /\ UNCHANGED <<rpc, impl, req, rctx, xcmd, proc, exitCode, watched,
                   watchErr, stdoutBuf, stderrBuf, wrote, rres, doneAt, pvars, avars, cvars>>

\* Cmd.Run returns, then lines 56-63.
RunReturn ==
    /\ rpc = "started"
    /\ reaped
    /\ rpc' = "returned"
    /\ rres' = RunResult(CommandLine(xcmd), stdoutBuf, stderrBuf,
                         WaitError(proc, exitCode, watchErr))
    /\ UNCHANGED <<impl, req, rctx, xcmd, proc, exitCode, reaped, watched,
                   watchErr, stdoutBuf, stderrBuf, wrote, doneAt, pvars, avars, cvars>>

RunnerNext ==
    \/ RunCtxDone
    \/ RunStart
    \/ ChildWrite
    \/ ChildExit
    \/ WatchCtx
    \/ Reap
    \/ RunReturn

----------------------------------------------------------------------------
\* ApplyClusterRoleBinding (part_000) and the control plane it applies to

BindingNames == {"my-operator-e2e-metrics-reader", "extra-reader"}
ClusterRoles == {"my-operator-metrics-reader"}
ApplyNamespaces == {"my-operator-system"}

\* The manifest of lines 23-35: the four values in the order name, clusterRole,
\* sa, ns of the Sprintf.
Manifest(name, clusterRole, n, s) ==
    [kind |-> "ClusterRoleBinding", name |-> name, roleRef |-> clusterRole,
     subjectName |-> s, subjectNamespace |-> n]

\* The request with the verb create in place of apply.
ApplyRequestCreate(manifest) ==
    [Command("kubectl", <<"create", "-f", "-">>) EXCEPT
        !.Stdin = Reader(<<manifest>>)]

\* Lines 37-38: kubectl apply -f - fed with the manifest.
ApplyRequest(manifest) ==
    [Command("kubectl", <<"apply", "-f", "-">>) EXCEPT
        !.Stdin = Reader(<<manifest>>)]

NoArgs == [name |-> "", clusterRole |-> "", ns |-> "", sa |-> ""]
NoApplyRun == [stdout |-> <<>>, err |-> NilErr, outage |-> FALSE]
NoPrev == [args |-> NoArgs, err |-> NilErr, cluster |-> {}, outage |-> FALSE]

\* What r.Run may return for cmd against the bindings cl, and the bindings it
\* leaves.  The control plane is the idempotent one of the comment of line 12:
\* apply creates the binding or updates it in place, create refuses a name
\* that exists.  A run may also fail for a reason of its own (outage), with or
\* without output, and then leaves the bindings alone.
Kubectl(cmd, cl) ==
    LET verb == cmd.Args[2]
        m == cmd.Stdin.data[1]
        exists == \E b \in cl : b.name = m.name
        upsert == {b \in cl : b.name # m.name} \cup {m}
    IN  {[stdout |-> o, err |-> e, outage |-> TRUE, cluster |-> cl] :
              o \in {<<>>, <<m.name, "a">>}, e \in RunnerErrs}
        \cup
        (IF verb = "create" /\ exists
         THEN {[stdout |-> <<>>, err |-> <<"kubectl failed", "AlreadyExists">>,
                outage |-> FALSE, cluster |-> cl]}
         ELSE {[stdout |-> <<m.name, IF m \in cl THEN "unchanged"
                                     ELSE IF exists THEN "configured"
                                     ELSE "created">>,
                err |-> NilErr, outage |-> FALSE, cluster |-> upsert]})

ApplyIdle ==
    /\ apc = "idle"
    /\ aargs = NoArgs
    /\ applyNo = 0
    /\ acmd = NoCmd
    /\ acalls = 0
    /\ arun = NoApplyRun
    /\ aerr = NilErr
    /\ cluster = {}
    /\ prior = NoPrev

\* Lines 15-40: the manifest and the command are built and r.Run is called.
ApplyCall ==
    /\ apc \in {"idle", "done"}
    /\ applyNo < MaxApplies
    /\ \E name \in BindingNames, role \in ClusterRoles,
          n \in ApplyNamespaces, s \in Accounts :
          /\ aargs' = [name |-> name, clusterRole |-> role, ns |-> n, sa |-> s]
          /\ acmd' = ApplyRequest(Manifest(name, role, n, s))
    /\ prior' = IF apc = "done"
               THEN [args |-> aargs, err |-> aerr, cluster |-> cluster,
                     outage |-> arun.outage]
               ELSE prior
    /\ applyNo' = applyNo + 1
    /\ acalls' = 1
    /\ arun' = NoApplyRun
    /\ aerr' = NilErr
    /\ apc' = "running"
    /\ UNCHANGED <<cluster, pvars, rvars, cvars>>

\* r.Run of line 40 completes.
KubectlDone ==
    /\ apc = "running"
    /\ \E o \in Kubectl(acmd, cluster) :
          /\ arun' = [stdout |-> o.stdout, err |-> o.err, outage |-> o.outage]
          /\ cluster' = o.cluster
    /\ apc' = "ran"
    /\ UNCHANGED <<aargs, applyNo, acmd, acalls, aerr, prior, pvars, rvars, cvars>>

\* ApplyReturn that runs the command once more after a failure.
ApplyReturnRetry ==
    /\ apc = "ran"
    /\ IF arun.err # NilErr /\ acalls < 2
       THEN /\ acalls' = acalls + 1
            /\ apc' = "running"
            /\ aerr' = aerr
       ELSE /\ aerr' = IF arun.err # NilErr
                       THEN Wrap(<<"kubectl apply clusterrolebinding failed">>,
                                 arun.err)
                       ELSE NilErr
            /\ acalls' = acalls
            /\ apc' = "done"
    /\ UNCHANGED <<aargs, applyNo, acmd, arun, cluster, prior, pvars, rvars, cvars>>

\* Lines 42-48: the output is logged and the error, if any, wrapped.
ApplyReturn ==
    /\ apc = "ran"
    /\ aerr' = IF arun.err # NilErr
               THEN Wrap(<<"kubectl apply clusterrolebinding failed">>, arun.err)
               ELSE NilErr
    /\ apc' = "done"
    /\ UNCHANGED <<aargs, applyNo, acmd, acalls, arun, cluster, prior, pvars,
                   rvars, cvars>>

ApplyNext ==
    \/ ApplyCall
    \/ KubectlDone
    \/ ApplyReturn

----------------------------------------------------------------------------
\* Two DefaultRunner.Run calls running in parallel (part_001, lines 38-63)

Calls == {1, 2}

\* The caller's environment lists: two arrays of the same entries, each with
\* room for spare more; a request's Env is a slice of one of them, and a
\* length of 0 is the request without an environment.
CallerEnv == <<"A=1", "KUBECONFIG=/k">>
CallerArrays == {1, 2}
Slices == [arr : CallerArrays, len : 0..Len(CallerEnv)]
NoSlice == [arr |-> 0, len |-> 0]

\* The array a call allocates for itself.
Own(i) == 2 + i

\* The entries of a slice.
SliceOf(h, sl) == SubSeq(h[sl.arr], 1, sl.len)

\* cap(s) > len(s): append stores into the array of s.
HasRoom(h, sl) == sl.len < Len(h[sl.arr])

ConcIdle ==
    /\ cpc = [i \in Calls |-> "idle"]
    /\ cslice = [i \in Calls |-> NoSlice]
    /\ heap = [a \in 1..4 |-> <<>>]
    /\ writes = {}
    /\ cenv = [i \in Calls |-> NoSlice]
    /\ childEnv = [i \in Calls |-> <<>>]
    /\ cout = [i \in Calls |-> <<>>]
    /\ cres = [i \in Calls |-> [out |-> <<>>, env |-> <<>>]]

ConcInit ==
    /\ cpc = [i \in Calls |-> "call"]
    /\ cslice \in [Calls -> Slices]
    /\ \E spare \in 0..MaxSpare :
          heap = [a \in 1..4 |->
                     IF a \in CallerArrays
                     THEN CallerEnv \o [k \in 1..spare |-> ""]
                     ELSE <<>>]
    /\ writes = {}
    /\ cenv = [i \in Calls |-> NoSlice]
    /\ childEnv = [i \in Calls |-> <<>>]
    /\ cout = [i \in Calls |-> <<>>]
    /\ cres = [i \in Calls |-> [out |-> <<>>, env |-> <<>>]]

\* Lines 38-46 of call i: c2.Env = cmd.Env, then the append of the marker.
\* append stores into the array of its argument when that has room, and into
\* a new array otherwise; os.Environ() returns a new list at every call.
ConcBuild(i) ==
    /\ cpc[i] = "call"
    /\ LET sl == cslice[i]
       IN  IF sl.len = 0
           THEN /\ heap' = [heap EXCEPT ![Own(i)] = Append(HostEnv, Marker)]
                /\ cenv' = [cenv EXCEPT ![i] =
                               [arr |-> Own(i), len |-> Len(HostEnv) + 1]]
                /\ writes' = writes \cup {<<Own(i), Len(HostEnv) + 1, i>>}
           ELSE IF HasRoom(heap, sl)
           THEN /\ heap' = [heap EXCEPT ![sl.arr][sl.len + 1] = Marker]
                /\ cenv' = [cenv EXCEPT ![i] =
                               [arr |-> sl.arr, len |-> sl.len + 1]]
                /\ writes' = writes \cup {<<sl.arr, sl.len + 1, i>>}
           ELSE /\ heap' = [heap EXCEPT ![Own(i)] =
                               Append(SliceOf(heap, sl), Marker)]
                /\ cenv' = [cenv EXCEPT ![i] =
                               [arr |-> Own(i), len |-> sl.len + 1]]
                /\ writes' = writes \cup {<<Own(i), sl.len + 1, i>>}
    /\ cpc' = [cpc EXCEPT ![i] = "built"]
    /\ UNCHANGED <<cslice, childEnv, cout, cres, pvars, rvars, avars>>

\* Line 55 of call i up to the start of the child, which gets c2.Env as it
\* is then.
ConcStart(i) ==
    /\ cpc[i] = "built"
    /\ childEnv' = [childEnv EXCEPT ![i] = DedupEnv(SliceOf(heap, cenv[i]))]
    /\ cpc' = [cpc EXCEPT ![i] = "running"]
    /\ UNCHANGED <<cslice, heap, writes, cenv, cout, cres, pvars, rvars, avars>>

\* The child of call i writes to its standard output, the buffer of line 51.
ConcWrite(i) ==
    /\ cpc[i] = "running"
    /\ Len(cout[i]) < MaxChildOut
    /\ \E ch \in Chars : cout' = [cout EXCEPT ![i] = Append(@, ch)]
    /\ UNCHANGED <<cpc, cslice, heap, writes, cenv, childEnv, cres, pvars,
                   rvars, avars>>

\* Lines 55-63 of call i: the child is done and Run returns.
ConcReturn(i) ==
    /\ cpc[i] = "running"
    /\ cres' = [cres EXCEPT ![i] = [out |-> cout[i], env |-> childEnv[i]]]
    /\ cpc' = [cpc EXCEPT ![i] = "returned"]
    /\ UNCHANGED <<cslice, heap, writes, cenv, childEnv, cout, pvars, rvars,
                   avars>>

ConcNext ==
    \E i \in Calls :
        \/ ConcBuild(i)
        \/ ConcStart(i)
        \/ ConcWrite(i)
        \/ ConcReturn(i)

----------------------------------------------------------------------------
\* The specifications

RInit == RunnerInit /\ PollerIdle /\ ApplyIdle /\ ConcIdle

RunnerSpec == RInit /\ [][RunnerNext]_vars

FairRunnerSpec ==
    RunnerSpec /\ WF_vars(WatchCtx) /\ WF_vars(Reap) /\ WF_vars(RunReturn)

----------------------------------------------------------------------------
\* The poller's specification

Init == PollerInit /\ RunnerIdle /\ ApplyIdle /\ ConcIdle

Next == PollerNext

Spec == Init /\ [][Next]_vars

FairSpec ==
    Spec /\ WF_vars(Entry) /\ WF_vars(RunnerReturn) /\ SF_vars(SelectDone)

\* Successive invocations of ApplyClusterRoleBinding.
AInit == ApplyIdle /\ PollerIdle /\ RunnerIdle /\ ConcIdle

ApplySpec == AInit /\ [][ApplyNext]_vars

\* Two invocations of DefaultRunner.Run in parallel.
CInit == ConcInit /\ PollerIdle /\ RunnerIdle /\ ApplyIdle

ConcSpec == CInit /\ [][ConcNext]_vars

----------------------------------------------------------------------------
\* Properties of ServiceAccountToken

\* The outcome of the latest completed attempt, as tryOnce reports it.
LastAttempt == TryOnce(ns, sa, lastOut)

\* The latest r.Run call succeeded, its output parsed, and its token is set.
LastResponseValid ==
    /\ lastOut.err = NilErr
    /\ lastOut.stdout.wf
    /\ Unmarshal(lastOut.stdout).err = NilErr
    /\ Unmarshal(lastOut.stdout).val # ""

\* C1: invoked with a context that is already done, ServiceAccountToken
\* returns the context's error and never calls the CmdRunner.
C1_PreCheckNoCall ==
    cancelPc = "entry" =>
        /\ calls = 0
        /\ pc \in {"entry", "done"}
        /\ pc = "done" => result.tok = "" /\ result.err # NilErr /\ result.err = ctxErr

C1_Witness ==
    pc = "done" /\ cancelPc = "entry" /\ calls = 0 /\ result.err \in CtxErrs

\* C2: when N attempts failed and attempt N+1 succeeds, the poller returns
\* the token of that response with a nil error after exactly N+1 runner calls.
C2_SuccessAfterNFailures ==
    /\ nSucceeded \in {0, 1}
    /\ nSucceeded = 1 =>
          /\ pc = "done"
          /\ LastResponseValid
          /\ result = [tok |-> Unmarshal(lastOut.stdout).val, err |-> NilErr]
          /\ calls = nFailed + 1
    /\ (pc = "done" /\ result.err = NilErr) => nSucceeded = 1

C2_Witness ==
    pc = "done" /\ nFailed = 2 /\ nSucceeded = 1 /\ calls = 3
        /\ result = [tok |-> "xyz789", err |-> NilErr]

\* C3: a return is either (non-empty token, nil error) or (empty token,
\* non-nil error).
C3_TokenXorError ==
    pc = "done" =>
        \/ result.tok # "" /\ result.err = NilErr
        \/ result.tok = "" /\ result.err # NilErr

C3_Witness ==
    pc = "done" /\ result.tok = "" /\ result.err # NilErr /\ nFailed >= 2
        /\ lastOut = [stdout |-> BodyEmptyTok, err |-> NilErr]

\* C4: success is reached only from a runner call that succeeded, whose
\* response parsed and whose token is non-empty; any other attempt leads to
\* the wait with that attempt's error recorded in lastErr.
C4_SuccessOnlyOnValidResponse ==
    /\ (pc = "done" /\ result.err = NilErr) => LastResponseValid
    /\ (nFailed + nSucceeded > 0 /\ ~LastResponseValid) =>
          /\ nSucceeded = 0
          /\ lastErr # NilErr
          /\ lastErr = LastAttempt.err
          /\ pc \in {"select", "inflight", "done"}
          /\ pc = "done" => result.err # NilErr
    /\ pc = "select" => ~LastResponseValid /\ lastErr = LastAttempt.err

C4_Witness ==
    pc = "select" /\ lastOut = [stdout |-> BodyTrunc, err |-> NilErr]
        /\ lastErr # NilErr /\ nFailed = 2

\* C5: the first attempt is issued on entry, before any tick is received; a
\* first attempt that succeeds returns with no tick received.
C5_FirstAttemptEager ==
    /\ calls > 0 => calls = ticksRecv + 1
    /\ (nFailed = 0 /\ nSucceeded = 1) =>
          pc = "done" /\ ticksRecv = 0 /\ calls = 1 /\ result.err = NilErr

C5_Witness ==
    pc = "done" /\ nFailed = 0 /\ nSucceeded = 1 /\ ticksRecv = 0 /\ now = 0
        /\ result.tok = "abc123"

\* C6: a cancelled poller returns the failure of the latest completed
\* attempt; it returns the context's error only when no attempt failed.
C6_CancelledReturnsLatestFailure ==
    (pc = "done" /\ result.err # NilErr) =>
        /\ nFailed > 0 => result.err = LastAttempt.err /\ result.err \notin CtxErrs
        /\ nFailed = 0 => result.err = ctxErr /\ calls = 0
        /\ result.err \in CtxErrs => nFailed = 0

C6_Witness ==
    pc = "done" /\ nFailed = 2 /\ result.err = <<"token is empty">>
        /\ ctxErr = CtxDeadlineExceeded

\* C7: an error is returned only when the context is done; while it is not
\* done, a failed attempt leaves the poller retrying.
C7_ErrorOnlyWhenCtxDone ==
    /\ (pc = "done" /\ result.err # NilErr) => ctxErr # NilErr
    /\ (ctxErr = NilErr /\ nFailed > 0 /\ nSucceeded = 0) => pc \in {"select", "inflight"}

C7_Witness ==
    pc = "done" /\ result.err # NilErr /\ ctxErr # NilErr /\ nFailed = 3
        /\ cancelPc = "select"

\* C8: once the context is done the invocation ends, given that every runner
\* call returns and that the select takes a ready ctx.Done() case eventually.
C8_TerminatesOnceCtxDone == (ctxErr # NilErr) ~> (pc = "done")

C8_Witness ==
    pc = "done" /\ cancelPc = "select" /\ calls > cancelCalls /\ result.err # NilErr

----------------------------------------------------------------------------
\* Properties of DefaultRunner.Run and utils.Run

\* What the child wrote to fd, in order.
RECURSIVE Written(_, _)
Written(w, fd) ==
    IF w = <<>> THEN <<>>
    ELSE IF Head(w)[1] = fd
         THEN <<Head(w)[2]>> \o Written(Tail(w), fd)
         ELSE Written(Tail(w), fd)

\* C9 as stated: whenever the context becomes done while the child is
\* running, DefaultRunner.Run returns a non-nil error.
C9_ErrorWheneverDoneWhileRunning ==
    (impl = "DefaultRunner" /\ rpc = "returned" /\ doneAt = "running") => ~rres.isNil

\* C9, amended: DefaultRunner.Run executes a context-bound command whatever
\* the caller built; a child still running when the context is done is killed
\* unless it exits on its own first; Run returns only
\* after the child has ended; it returns a non-nil error when the child was
\* killed or the kill was issued before the child was reaped, and a nil error
\* after the context is done only for a child that exited successfully on
\* its own.
C9_ContextBoundChild ==
    /\ [](impl = "DefaultRunner" /\ rpc \in {"started", "returned"} => xcmd.ctxBound)
    /\ [](rpc = "returned" => proc # "running")
    /\ []((impl = "DefaultRunner" /\ rpc = "returned"
              /\ (proc = "killed" \/ watchErr # NilErr)) => ~rres.isNil)
    /\ []((impl = "DefaultRunner" /\ rpc = "returned" /\ rctx # NilErr /\ rres.isNil)
              => proc = "exited" /\ exitCode = 0)
    /\ (impl = "DefaultRunner" /\ rctx # NilErr /\ proc = "running")
           ~> (proc \in {"killed", "exited"})

C9_Witness ==
    /\ impl = "DefaultRunner" /\ ~req.ctxBound /\ rpc = "returned"
    /\ doneAt = "running" /\ proc = "killed" /\ ~rres.isNil
    /\ rres.cause = <<"signal: killed">>

\* C10 as stated: for every execution by DefaultRunner.Run, a child that
\* succeeds (exits with status 0) gives a nil error and exactly what it wrote
\* to its standard output; a child that fails or cannot be started gives a
\* non-nil error that wraps the failure; a nil error never comes with a
\* diagnostic payload and a non-nil error never comes without a cause.
C10_ExitZeroGivesNilError ==
    (impl = "DefaultRunner" /\ rpc = "returned") =>
        /\ (proc = "exited" /\ exitCode = 0) =>
              /\ rres.isNil
              /\ rres.out = Written(wrote, 1)
        /\ (proc \in {"none", "killed"} \/ exitCode # 0) =>
              /\ ~rres.isNil
              /\ rres.cause # NilErr
        /\ rres.isNil => rres.combined = <<>>
        /\ ~rres.isNil => rres.cause # NilErr

\* C10, amended: an execution whose child exited with status 0 and to which
\* no context interruption was reported (the context watcher did not act
\* before the child was reaped) returns a nil error and exactly what the child
\* wrote to its standard output, with nothing of its standard error; a child
\* that fails or cannot be started returns a non-nil error that wraps the
\* execution failure, and a child that exited with status 0 but was not yet
\* reaped when the watcher acted returns a non-nil error that wraps the
\* context's error. A nil error never comes with a diagnostic payload and a
\* non-nil error never comes without a cause.
C10_SuccessOrWrappedFailure ==
    rpc = "returned" =>
        /\ (proc = "exited" /\ exitCode = 0 /\ watchErr = NilErr) => rres.isNil
        /\ (proc = "exited" /\ exitCode = 0 /\ watchErr # NilErr) =>
              (~rres.isNil /\ rres.cause = watchErr /\ watchErr \in CtxErrs)
        /\ (proc \in {"none", "killed"} \/ exitCode # 0) => ~rres.isNil
        /\ rres.isNil =>
              /\ proc = "exited" /\ exitCode = 0
              /\ rres.out = Written(wrote, 1)
              /\ rres.combined = <<>>
              /\ rres.cause = NilErr
        /\ ~rres.isNil =>
              /\ rres.cause # NilErr
              /\ proc = "none" => rres.cause = StartError(xcmd, rctx)
              /\ proc = "killed" => rres.cause = <<"signal: killed">>
              /\ (proc = "exited" /\ exitCode # 0) => rres.cause = <<"exit status 1">>
              /\ (proc = "exited" /\ exitCode = 0) => rres.cause = rctx

C10_Witness ==
    /\ rpc = "returned" /\ rres.isNil
    /\ wrote = <<<<2, "a">>, <<1, "a">>>>
    /\ rres.out = <<"a">> /\ stderrBuf = <<"a">>

\* Whether needle occurs in hay at position i.
OccursAt(hay, needle, i) ==
    /\ i + Len(needle) - 1 <= Len(hay)
    /\ \A j \in 1..Len(needle) : hay[i + j - 1] = needle[j]

\* Whether needle occurs in hay, followed somewhere by then.
OccursThen(hay, needle, then) ==
    \E i \in 1..(Len(hay) + 1) :
        /\ OccursAt(hay, needle, i)
        /\ \E k \in (i + Len(needle))..(Len(hay) + 1) : OccursAt(hay, then, k)

\* The trimmed standard error, a newline, standard output of the child.
Diagnostics == TrimSpace(Written(wrote, 2) \o <<"\n">> \o Written(wrote, 1))

\* C11 as stated: a failing DefaultRunner.Run returns the captured standard
\* output, and its error message contains the invoked command line (path and
\* arguments joined by spaces) followed by the trimmed standard error and
\* standard output.
C11_MessageHoldsCommandLine ==
    (impl = "DefaultRunner" /\ rpc = "returned" /\ ~rres.isNil) =>
        /\ rres.out = Written(wrote, 1)
        /\ OccursThen(ErrorText(rres), Join(xcmd.Args, " "), Diagnostics)

\* C11, amended: a failing DefaultRunner.Run returns the captured standard
\* output, and its error message is the %q rendering of the invoked command
\* line (quoted, with quotes, backslashes and newlines escaped), " failed: ",
\* the trimmed standard error, newline and standard output, ": ", and the
\* message of the execution failure; it contains the command line verbatim
\* when no argument holds a character that %q escapes.
C11_MessageHoldsQuotedCommandLine ==
    (impl = "DefaultRunner" /\ rpc = "returned" /\ ~rres.isNil) =>
        /\ rres.out = Written(wrote, 1)
        /\ ErrorText(rres) =
              Quote(Join(xcmd.Args, " ")) \o <<" failed: ">> \o Diagnostics
                  \o <<": ">> \o ErrText(rres.cause)
        /\ (\A i \in 1..Len(xcmd.Args) : Escape(xcmd.Args[i]) = xcmd.Args[i])
              => OccursThen(ErrorText(rres), Join(xcmd.Args, " "), Diagnostics)

C11_Witness ==
    /\ impl = "DefaultRunner" /\ rpc = "returned" /\ ~rres.isNil
    /\ req = ReqApply /\ exitCode = 1
    /\ wrote = <<<<1, "a">>, <<2, "b">>>>
    /\ rres.out = <<"a">> /\ rres.combined = <<"b", "\n", "a">>

\* The list the marker is appended to: the caller's, or the host's when the
\* caller supplied none.
BaseEnv == IF Len(req.Env) = 0 THEN HostEnv ELSE req.Env

\* The positions of a list whose variable is not set again further on.
LastOfKey(env) ==
    {i \in 1..Len(env) :
        \A j \in (i + 1)..Len(env) : EnvKey(env[j]) # EnvKey(env[i])}

\* C12 as stated: the environment the child of DefaultRunner.Run receives is
\* the caller-supplied list (the host environment when none is supplied) with
\* GO111MODULE=on appended, every earlier entry kept in order exactly once,
\* also for a list that already sets GO111MODULE.
C12_ChildEnvIsListPlusMarker ==
    (impl = "DefaultRunner" /\ proc # "none") =>
        ChildEnv(xcmd) = Append(BaseEnv, Marker)

\* C12, amended: DefaultRunner.Run sets the environment list of the execution
\* to the caller-supplied list (the host environment when none is supplied)
\* with GO111MODULE=on appended, no entry removed, duplicated or reordered; of
\* that list the child receives, in order and exactly once, the entries whose
\* variable is not set again later in the list, so GO111MODULE=on is its last
\* entry and an entry of the caller that sets GO111MODULE is not received.
C12_MarkerAppendedLastWins ==
    (impl = "DefaultRunner" /\ proc # "none") =>
        LET full == Append(BaseEnv, Marker)
            kept == LastOfKey(full)
            env == ChildEnv(xcmd)
        IN  /\ xcmd.Env = full
            /\ Len(env) = Cardinality(kept)
            /\ \A i \in kept : env[Cardinality({k \in kept : k <= i})] = full[i]
            /\ env[Len(env)] = Marker
            /\ \A i \in 1..Len(BaseEnv) :
                  EnvKey(BaseEnv[i]) = "GO111MODULE" => i \notin kept

C12_Witness ==
    /\ impl = "DefaultRunner" /\ proc = "running" /\ req = ReqBound
    /\ xcmd.Env = <<"KUBECONFIG=/k", "GO111MODULE=off", "GO111MODULE=on">>
    /\ ChildEnv(xcmd) = <<"KUBECONFIG=/k", "GO111MODULE=on">>

\* C13: two successive ApplyClusterRoleBinding calls with identical inputs,
\* neither hit by a failure of the run itself, both return no error, and the
\* bindings of the cluster after the second call equal those after the first;
\* no call ever fails because the binding already exists.
C13_ApplyTwiceIdempotent ==
    /\ (apc \in {"ran", "done"} /\ arun.err # NilErr) => arun.outage
    /\ (apc = "done" /\ applyNo >= 2 /\ aargs = prior.args
            /\ ~arun.outage /\ ~prior.outage) =>
          /\ aerr = NilErr
          /\ prior.err = NilErr
          /\ cluster = prior.cluster

C13_Witness ==
    /\ apc = "done" /\ applyNo = 2 /\ aargs = prior.args
    /\ ~arun.outage /\ ~prior.outage
    /\ aerr = NilErr /\ prior.err = NilErr
    /\ arun.stdout = <<"my-operator-e2e-metrics-reader", "unchanged">>
    /\ cluster = {Manifest("my-operator-e2e-metrics-reader",
                           "my-operator-metrics-reader", "my-operator-system",
                           "my-operator-controller-manager")}
    /\ cluster = prior.cluster

\* C14: each ApplyClusterRoleBinding call invokes r.Run exactly once; it
\* returns nil exactly when that call returned no error, and otherwise the
\* runner's error wrapped with "kubectl apply clusterrolebinding failed",
\* whatever the runner's output was.
C14_OneRunWrappedFailure ==
    /\ apc = "idle" => acalls = 0
    /\ apc # "idle" => acalls = 1
    /\ apc = "done" =>
          /\ (aerr = NilErr) <=> (arun.err = NilErr)
          /\ arun.err # NilErr =>
                aerr = <<"kubectl apply clusterrolebinding failed">> \o arun.err

C14_Witness ==
    /\ apc = "done" /\ acalls = 1
    /\ arun.err = <<"kubectl failed", "exit status 1">>
    /\ arun.stdout # <<>>
    /\ aerr = <<"kubectl apply clusterrolebinding failed", "kubectl failed",
                "exit status 1">>

\* The r.Run calls of the invocation that have not returned yet.
InFlight == calls - (nFailed + nSucceeded)

\* C15: within one ServiceAccountToken invocation at most one r.Run call is
\* in flight at any moment, and a call starts only when every earlier one has
\* returned.
C15_OneCallInFlight ==
    /\ [](InFlight \in {0, 1} /\ (InFlight = 1 <=> pc = "inflight"))
    /\ [][calls' > calls => (InFlight = 0 /\ calls' = calls + 1)]_vars

C15_Witness ==
    /\ pc = "inflight" /\ calls = 3 /\ nFailed = 2 /\ InFlight = 1

\* C16: when the context becomes done while the poller waits between
\* attempts, the poller starts no further attempt, also when a tick is
\* pending at that moment.
C16_NoAttemptAfterDoneInWait ==
    cancelPc = "select" => calls = cancelCalls

\* C17: after a failed attempt the next attempt starts only by receiving a
\* tick, one attempt per tick received; the ticker fires exactly at the
\* multiples of the 2-unit period since its start, whatever the number or
\* kind of the failures so far.
C17_RetryOnFixedPeriodTick ==
    /\ [](/\ ticksSent = now \div Period
          /\ ticksRecv <= ticksSent
          /\ calls > 0 => calls = ticksRecv + 1)
    /\ [][(calls' > calls /\ calls > 0) =>
            (/\ pc = "select" /\ tickPending /\ ~tickPending'
             /\ ticksRecv' = ticksRecv + 1
             /\ calls' = calls + 1)]_vars
    /\ [][ticksSent' # ticksSent =>
            (ticksSent' = ticksSent + 1 /\ now' % Period = 0)]_vars

C17_Witness ==
    /\ pc = "inflight" /\ now = 4 /\ ticksSent = 2 /\ ticksRecv = 2
    /\ calls = 3 /\ nFailed = 2
    /\ lastOut.err # NilErr

\* The path DefaultRunner.Run takes from the request: its Path, or its first
\* argument when the Path is empty.
RequestPath == IF req.Path = "" /\ req.Args # <<>> THEN req.Args[1] ELSE req.Path

\* C18: DefaultRunner.Run leaves the caller's command as it was and executes
\* a new context-bound command: its path is the request's path (the first
\* argument when the path is absent; looked up in PATH when it is a bare
\* name), its arguments after the path are the request's arguments after the
\* first, its working directory and its input stream are the request's, and a
\* zero-byte input stream stays present.
C18_RebuildsContextBound ==
    (impl = "DefaultRunner" /\ rpc # "call") =>
        /\ req \in Requests
        /\ xcmd.ctxBound
        /\ xcmd.Args = <<RequestPath>> \o SubSeq(req.Args, 2, Len(req.Args))
        /\ xcmd.Path = IF IsBare(RequestPath) /\ LookPath(RequestPath).err = NilErr
                       THEN LookPath(RequestPath).path
                       ELSE RequestPath
        /\ xcmd.Dir = req.Dir
        /\ xcmd.Stdin = req.Stdin
        /\ req.Stdin.present => xcmd.Stdin.present

C18_Witness ==
    /\ impl = "DefaultRunner" /\ rpc = "started" /\ req = ReqEmptyStdin
    /\ ~req.ctxBound /\ xcmd.ctxBound
    /\ xcmd.Path = "/usr/local/bin/kubectl"
    /\ xcmd.Args = <<"/usr/local/bin/kubectl", "create", "-f", "-">>
    /\ xcmd.Stdin = [present |-> TRUE, data |-> <<>>]

\* C19: DefaultRunner.Run on a request without path and arguments returns at
\* its first step with a non-nil error ("exec: no command", wrapped), without
\* having started a child, whether or not the context is done.
C19_EmptyRequestFailsAtOnce ==
    /\ [](impl = "DefaultRunner" /\ req = ReqEmpty /\ rpc # "call" =>
            /\ rpc = "returned"
            /\ ~rres.isNil
            /\ rres.cause = <<"exec: no command">>
            /\ rres.out = <<>>
            /\ proc = "none"
            /\ wrote = <<>>)
    /\ [][(impl = "DefaultRunner" /\ req = ReqEmpty /\ rpc = "call"
               /\ rpc' # rpc) => (rpc' = "returned" /\ proc' = "none")]_vars

C19_Witness ==
    /\ impl = "DefaultRunner" /\ req = ReqEmpty /\ rpc = "returned"
    /\ xcmd.Path = "" /\ xcmd.Args = <<"">>
    /\ ~rres.isNil /\ proc = "none"
    /\ ErrorText(rres) = <<"\"", "", "\"", " failed: ", ": ", "exec: no command">>

\* The environment the child of call i receives when the call runs alone.
AloneEnv(i) ==
    DedupEnv(Append(IF cslice[i].len = 0 THEN HostEnv
                    ELSE SubSeq(CallerEnv, 1, cslice[i].len), Marker))

\* C20: two DefaultRunner.Run calls running in parallel never write to the
\* same memory and do not affect each other's result, also when their
\* requests share the caller-supplied environment list.
C20_NoSharedWrites ==
    /\ \A w1, w2 \in writes :
          (w1[1] = w2[1] /\ w1[2] = w2[2]) => w1[3] = w2[3]
    /\ \A i \in Calls :
          cpc[i] = "returned" =>
              /\ cres[i].env = AloneEnv(i)
              /\ cres[i].out = cout[i]

\* C21: at every moment the number of r.Run calls made by one
\* ServiceAccountToken invocation is at most 1 + floor(t/2), t being the time
\* since the ticker was started before the first attempt, however long the
\* attempts take; at most one tick waits in the channel, and every call after
\* the first has consumed one tick.
C21_CallsBoundedByTime ==
    /\ [](/\ calls <= 1 + (now \div Period)
          /\ ticksSent - ticksRecv >= (IF tickPending THEN 1 ELSE 0)
          /\ lastEndAt <= now)
    /\ [][calls' > calls => calls' <= 1 + (now' \div Period)]_vars

\* The bound is met, and the third attempt started at the moment the second
\* one failed, less than a period after it.
C21_Witness ==
    /\ pc = "inflight" /\ calls = 3 /\ nFailed = 2
    /\ now = 2 * Period /\ lastEndAt = now
    /\ calls = 1 + (now \div Period)

\* C22: every attempt of ServiceAccountToken, first or retry, passes to r.Run
\* a cmd object no earlier attempt used, for kubectl create --raw on the token
\* path of the identity, whose input stream holds the whole TokenRequest body
\* and has not been read from.
C22_FreshRequestPerAttempt ==
    /\ [](calls > 0 =>
            /\ tcmd.cmd.Args = <<"kubectl", "create", "--raw", TokenPath(ns, sa),
                                 "-f", "-">>
            /\ tcmd.cmd.Stdin = [present |-> TRUE, data |-> TokenRequestBody]
            /\ tcmd.id \in passed
            /\ Cardinality(passed) = calls
            /\ pc = "inflight" => tcmd.read = 0)
    /\ [][calls' > calls =>
            (/\ tcmd'.id \notin passed
             /\ tcmd'.read = 0
             /\ tcmd'.cmd.Stdin.data = TokenRequestBody)]_vars

\* The second attempt has a cmd of its own, which r.Run has read to its end.
C22_Witness ==
    /\ pc = "select" /\ calls = 2 /\ nFailed = 2
    /\ tcmd.id = 2 /\ passed = {1, 2}
    /\ tcmd.read = Len(TokenRequestBody)
    /\ tcmd.cmd.Args[4] =
          "/api/v1/namespaces/default/serviceaccounts/builder/token"

====
